---- MODULE Spec2Model ----
(***************************************************************************)
(* Model of server/app.py: a Flask backend with a health route, a          *)
(* single-shot chat route, a streaming chat route, a lazily created shared *)
(* Gemini client and a single-slot weather cache.                          *)
(*                                                                         *)
(* Request handlers run on threads of the server; a step of the model is   *)
(* one access to shared state (the module globals _client and              *)
(* _weather_cache, the wall clock, the weather service, the Gemini         *)
(* service) together with the local computation that follows it.           *)
(*                                                                         *)
(* Text is modelled as a sequence of tokens (words and blanks); lower(),   *)
(* strip() and the substring test `kw in t` are computed on the tokens.    *)
(***************************************************************************)
EXTENDS Naturals, Integers, Sequences, FiniteSets, TLC

\* ---------------------------------------------------------------- bounds
MaxRequests == 3        \* requests served in one run
MaxFragments == 2       \* fragments the upstream emits in one stream
MaxTicks == 2           \* how often the wall clock advances in one run

Threads == {"t1", "t2"}

\* ------------------------------------------------------------- constants
\* line 73: the freshness window of the weather cache, in seconds
FreshnessWindow == 60
\* the wall clock advances in steps of half the window
TickStep == FreshnessWindow \div 2

\* ------------------------------------------------------------------ text
Whitespace == {" "}

\* str.lower() on one token
LowerToken(w) ==
    CASE w = "Galway" -> "galway"
      [] w = "WEATHER" -> "weather"
      [] OTHER -> w

\* str.lower(): line 118
lower(s) == [i \in 1..Len(s) |-> LowerToken(s[i])]

\* the trigger keywords that are substrings of a lower-cased token
KeywordsOf(w) ==
    CASE w = "galway" -> {"galway"}
      [] w = "weather" -> {"weather"}
      [] w = "time" -> {"time"}
      [] w = "sometimes" -> {"time"}
      [] w = "ireland" -> {"ireland"}
      [] OTHER -> {}

\* `kw in t` on a string t: line 119
In(kw, t) == \E i \in 1..Len(t) : kw \in KeywordsOf(t[i])

RECURSIVE lstrip(_)
lstrip(s) == IF s # <<>> /\ Head(s) \in Whitespace THEN lstrip(Tail(s)) ELSE s

RECURSIVE rstrip(_)
rstrip(s) ==
    IF s # <<>> /\ s[Len(s)] \in Whitespace THEN rstrip(SubSeq(s, 1, Len(s) - 1)) ELSE s

\* a mutant of strip: the message is used as received
strip_nothing(s) == s

\* str.strip(): lines 160, 184
strip(s) == rstrip(lstrip(s))

\* The request bodies of the model: a JSON object with or without "message".
Messages ==
    { <<>>,
      <<" ">>,
      <<" ", "hi", " ">>,
      <<"weather", " ", "ireland">>,
      <<"WEATHER", " ", "Galway">> }

Payloads ==
    {[keys |-> {}, message |-> <<>>]} \cup {[keys |-> {"message"}, message |-> m] : m \in Messages}

\* (payload.get("message") or "").strip(): lines 159-160, 183-184
MessageOf(payload) ==
    strip(IF "message" \in payload.keys THEN payload.message ELSE <<>>)

\* ---------------------------------------------------------------- values
None == [isNone |-> TRUE]

Text(s) == [kind |-> "text", text |-> s]

MissingKeyMsg == Text("Missing GEMINI_API_KEY environment variable.")
SendAMessage == Text("Send a message, genius.")
MissingMessage == Text("Missing message")
DoneMarker == Text("[DONE]")

\* f"data: {x}\n\n": lines 186, 193, 194, 203, 204, 214, 216
Event(x) == [data |-> x]

\* the environment variable GEMINI_API_KEY: unset, empty or set
ApiKeys == {"unset", "", "key"}

\* a mutant of NoApiKey: only an unset variable counts as missing
NoApiKeyUnsetOnly(api_key) == api_key = "unset"

\* `not api_key`: line 53 (os.environ.get gives None when the variable is unset)
NoApiKey(api_key) == api_key \in {"unset", ""}

\* what the upstream hands back as chunk.text / response.text
ChunkTexts == {[has_text |-> FALSE, text |-> ""],
               [has_text |-> TRUE, text |-> ""],
               [has_text |-> TRUE, text |-> "a"],
               [has_text |-> TRUE, text |-> "b"]}

\* truth value of chunk.text / response.text: lines 178, 212
Truthy(c) == c.has_text /\ c.text # ""

\* what the weather service reports for temperature_2m
Temperatures == {11}

\* ----------------------------------------------------------------- state
VARIABLES
    api_key,         \* os.environ.get("GEMINI_API_KEY"), fixed for the run
    timeBound,       \* whether the global name `time` resolves in app.py
    clock,           \* the wall clock, in seconds
    _client,         \* line 40: the shared Gemini client, None or its identity
    _weather_cache,  \* line 64: [ts, value]
    th,              \* per thread: the request it serves and its locals
    lastAloneFetch,  \* history: the last lookup that fetched, overlapping no other
    written,         \* history: the ts written by the refresh that wrote the value
    nRequests,       \* history: requests received so far
    nClients         \* history: genai.Client objects constructed so far

vars == <<api_key, timeBound, clock, _client, _weather_cache, th, lastAloneFetch,
          written, nRequests, nClients>>

\* a thread that serves no request
Idle ==
    [pc |-> "idle", endpoint |-> "none", payload |-> [keys |-> {}, message |-> <<>>],
     message |-> <<>>, now |-> 0, result |-> None, net |-> FALSE, wfail |-> FALSE,
     alone |-> TRUE, mark |-> 0, resp |-> None, out |-> <<>>, stream |-> "none",
     upstream |-> <<>>, client |-> None, prompts |-> <<>>, genFailed |-> FALSE]

\* module import: lines 26-64 (no client, an empty cache)
Init ==
    /\ api_key \in ApiKeys
    /\ timeBound \in BOOLEAN
    /\ clock = 0
    /\ _client = None
    /\ _weather_cache = [ts |-> 0, value |-> None]
    /\ th = [t \in Threads |-> Idle]
    /\ lastAloneFetch = None
    /\ written = 0
    /\ nRequests = 0
    /\ nClients = 0

LookupPcs == {"time_time", "read_value", "read_ts", "return_cached", "store_ts",
              "store_value"}

InLookup(t) == th[t].pc \in LookupPcs

\* ------------------------------------------------------------- responses
Json(status, reply) == [status |-> status, kind |-> "json", body |-> [reply |-> reply]]

\* Flask's answer to an exception that escapes the view function
ErrorPage == [status |-> 500, kind |-> "errorpage", body |-> None]

Sse == [status |-> 200, kind |-> "event-stream", body |-> None]

\* a mutant of Fresh: an entry of exactly 60 seconds still counts as fresh
FreshInclusive(now, ts) == now - ts <= FreshnessWindow

\* a mutant of Fresh: the age is taken in milliseconds
FreshMillis(now, ts) == (now - ts) * 1000 < FreshnessWindow

\* now - _weather_cache["ts"] < 60: line 73
Fresh(now, ts) == now - ts < FreshnessWindow

\* a mutant of DirectReply: the error entry of the lookup is not looked at
DirectReplyNoErrorCheck(info) ==
    [kind |-> "direct", local_time |-> info.local_time,
     weather |-> [temperature_c |->
                    IF "error" \in DOMAIN info.weather THEN 0
                    ELSE info.weather.temperature_c]]

\* the text maybe_handle_time_weather builds from the lookup: lines 121-132
DirectReply(info) ==
    IF "error" \in DOMAIN info.weather
    THEN [kind |-> "direct", local_time |-> info.local_time,
          weather |-> [unavailable |-> TRUE]]
    ELSE [kind |-> "direct", local_time |-> info.local_time,
          weather |-> [temperature_c |-> info.weather.temperature_c]]

\* a mutant of Triggers: every message is taken for a question about Galway
TriggersAnything(t) == Len(t) >= 0

\* a mutant of Triggers: "ireland" counts as a location keyword too
TriggersEitherLocation(t) ==
    (In("galway", t) \/ In("ireland", t)) /\ (In("weather", t) \/ In("time", t))

\* the trigger of the fast path: line 119
Triggers(t) == In("galway", t) /\ (In("weather", t) \/ In("time", t))

\* a mutant of Contents: the message is wrapped in an instruction block
ContentsWrapped(message) == <<"LIVE_DATA">> \o message

\* contents=message: lines 176, 210
Contents(message) == message

\* ------------------------------------------------------------ the routes
Set(t, r) == th' = [th EXCEPT ![t] = r]

\* The steps of a request from the generation call on, and the delivery of its
\* response, touch nothing but the thread's own record, so they commute with
\* every step of every other thread.  The model runs them back to back, right
\* after the thread's last step on shared state: while a thread is at its
\* generation call or past it, or holds a finished response, no other thread
\* steps and the clock does not tick.  Every interleaving of the threads is
\* equivalent to one of these (move the thread's local steps up to its last
\* shared one), so no outcome of any request is left out.
LocalPcs == {"generate_content", "generate_content_stream", "next_chunk", "done"}

\* thread t may take a step
Quiet(t) == \A u \in Threads \ {t} : th[u].pc \notin LocalPcs

\* a request arrives at a thread that serves none
Accept(t) ==
    /\ th[t].pc = "idle"
    /\ Quiet(t)
    /\ nRequests < MaxRequests
    /\ nRequests' = nRequests + 1

\* the steps of get_gemini_client
ClientPcs == {"get_client", "create_client"}

\* A request that looks up the weather touches the clock and the cache and
\* nothing else that is shared; a request that goes to Gemini touches the
\* client and nothing else that is shared.  Steps of the one kind commute with
\* steps of the other, so a run in which the two kinds overlap has the same
\* outcome for every request, and the same cache and client, as the run that
\* serves its Gemini requests first and its lookups after.  The model starts
\* a request of one kind only while no request of the other kind is under way.
Apart(t, pcs) == \A u \in Threads \ {t} : th[u].pc \notin pcs

\* the call of maybe_handle_time_weather(message) by a handler: lines 118-120.
\* A message that triggers enters get_galway_time_weather; any other goes on to
\* get_gemini_client.  `alone` records whether another lookup runs meanwhile.
EnterMaybeHandle(t, r) ==
    IF Triggers(lower(r.message))
    THEN /\ Apart(t, ClientPcs)
         /\ LET busy == \E u \in Threads \ {t} : InLookup(u)
            IN th' = [u \in Threads |->
                        IF u = t THEN [r EXCEPT !.pc = "time_time", !.alone = ~busy]
                        ELSE IF InLookup(u) THEN [th[u] EXCEPT !.alone = FALSE]
                        ELSE th[u]]
    ELSE /\ Apart(t, LookupPcs)
         /\ Set(t, [r EXCEPT !.pc = "get_client"])

\* GET /api/health: lines 152-154
health(t) ==
    /\ Accept(t)
    /\ Set(t, [Idle EXCEPT !.pc = "done", !.endpoint = "health",
                           !.resp = [status |-> 200, kind |-> "json",
                                     body |-> [status |-> "ok"]]])
    /\ UNCHANGED <<api_key, timeBound, clock, _client, _weather_cache, written, lastAloneFetch,
                   nClients>>

\* POST /api/chat up to the call of the live-data helper: lines 157-165, for a
\* request body out of `payloads`
chat_of(t, payloads) ==
    /\ Accept(t)
    /\ \E payload \in payloads :
         LET message == MessageOf(payload)
             r == [Idle EXCEPT !.endpoint = "chat", !.payload = payload,
                               !.message = message]
         IN IF message = <<>>
            THEN Set(t, [r EXCEPT !.pc = "done", !.resp = Json(400, SendAMessage)])
            ELSE EnterMaybeHandle(t, r)
    /\ UNCHANGED <<api_key, timeBound, clock, _client, _weather_cache, written, lastAloneFetch,
                   nClients>>

chat(t) == chat_of(t, Payloads)

\* POST /api/chat/stream up to the call of the live-data helper: lines 181-189,
\* for a request body out of `payloads`
chat_stream_of(t, payloads) ==
    /\ Accept(t)
    /\ \E payload \in payloads :
         LET message == MessageOf(payload)
             r == [Idle EXCEPT !.endpoint = "stream", !.payload = payload,
                               !.message = message]
         IN IF message = <<>>
            THEN Set(t, [r EXCEPT !.pc = "done", !.resp = Sse,
                                  !.out = <<Event(MissingMessage)>>,
                                  !.stream = "closed"])
            ELSE EnterMaybeHandle(t, r)
    /\ UNCHANGED <<api_key, timeBound, clock, _client, _weather_cache, written, lastAloneFetch,
                   nClients>>

chat_stream(t) == chat_stream_of(t, Payloads)

\* an exception leaves the view function (or the helper it called): Flask
\* answers 500 with its error page, and no event stream is opened
Escapes(r) == [r EXCEPT !.pc = "done", !.resp = ErrorPage]

\* the handlers' use of the helper's answer: lines 166-167 and 190-196
AnswerDirect(r, direct) ==
    IF r.endpoint = "chat"
    THEN [r EXCEPT !.pc = "done", !.resp = Json(200, direct)]
    ELSE [r EXCEPT !.pc = "done", !.resp = Sse,
                   !.out = <<Event(direct), Event(DoneMarker)>>, !.stream = "closed"]

\* the return of get_galway_time_weather to maybe_handle_time_weather and on to
\* the handler: lines 120-132, then 166-167 or 190-196
Returned(r, info) == AnswerDirect(r, DirectReply(info))

\* ------------------------------------------- get_galway_time_weather
\* now = time.time(): line 72.  app.py imports no module `time` (lines 3-11),
\* so the name resolves only where the process has bound it in the module's
\* globals or in builtins; where it has not, the read raises NameError, which
\* no caller catches.
time_time(t) ==
    /\ th[t].pc = "time_time"
    /\ Quiet(t)
    /\ IF timeBound
       THEN Set(t, [th[t] EXCEPT !.pc = "read_value", !.now = clock])
       ELSE Set(t, Escapes(th[t]))
    /\ UNCHANGED <<api_key, timeBound, clock, _client, _weather_cache, written, lastAloneFetch,
                   nRequests, nClients>>

\* the weather entry of the result: lines 87-100
WeatherOf(ok, temperature) ==
    IF ok THEN [temperature_c |-> temperature] ELSE [error |-> "weather_fetch_failed"]

\* the cache did not answer: the local time and the request to Open-Meteo,
\* lines 76-107.  The request succeeds with some observation or fails
\* (unreachable, non-2xx, timeout); the time it takes passes before line 109.
fetch(r) ==
    { [r EXCEPT !.pc = "store_ts", !.net = TRUE, !.wfail = ~ok,
                !.result = [local_time |-> clock, weather |-> WeatherOf(ok, temperature)]] :
      ok \in BOOLEAN, temperature \in Temperatures }

\* _weather_cache["value"] is not None: line 73, left operand
read_value(t) ==
    /\ th[t].pc = "read_value"
    /\ Quiet(t)
    /\ IF _weather_cache.value # None
       THEN Set(t, [th[t] EXCEPT !.pc = "read_ts"])
       ELSE \E r \in fetch(th[t]) : Set(t, r)
    /\ UNCHANGED <<api_key, timeBound, clock, _client, _weather_cache, written, lastAloneFetch,
                   nRequests, nClients>>

\* now - _weather_cache["ts"] < 60: line 73, right operand.  `mark` keeps the
\* timestamp the test has read.
read_ts(t) ==
    /\ th[t].pc = "read_ts"
    /\ Quiet(t)
    /\ IF Fresh(th[t].now, _weather_cache.ts)
       THEN Set(t, [th[t] EXCEPT !.pc = "return_cached", !.mark = _weather_cache.ts])
       ELSE \E r \in fetch(th[t]) : Set(t, r)
    /\ UNCHANGED <<api_key, timeBound, clock, _client, _weather_cache, written, lastAloneFetch,
                   nRequests, nClients>>

\* return _weather_cache["value"]: line 74
return_cached(t) ==
    /\ th[t].pc = "return_cached"
    /\ Quiet(t)
    /\ Set(t, Returned([th[t] EXCEPT !.result = _weather_cache.value, !.mark = 0],
                        _weather_cache.value))
    /\ UNCHANGED <<api_key, timeBound, clock, _client, _weather_cache, written, lastAloneFetch,
                   nRequests, nClients>>

\* _weather_cache["ts"] = now: line 109
store_ts(t) ==
    /\ th[t].pc = "store_ts"
    /\ Quiet(t)
    /\ _weather_cache' = [_weather_cache EXCEPT !.ts = th[t].now]
    /\ Set(t, [th[t] EXCEPT !.pc = "store_value"])
    /\ UNCHANGED <<api_key, timeBound, clock, _client, lastAloneFetch, written, nRequests,
                   nClients>>

\* _weather_cache["value"] = result; return result: lines 110-111.  `written`
\* records the timestamp this refresh wrote, or meant to write, at line 109.
store_value(t) ==
    /\ th[t].pc = "store_value"
    /\ Quiet(t)
    /\ _weather_cache' = [_weather_cache EXCEPT !.value = th[t].result]
    /\ written' = th[t].now
    /\ Set(t, Returned(th[t], th[t].result))
    /\ UNCHANGED <<api_key, timeBound, clock, _client, lastAloneFetch, nRequests,
                   nClients>>

\* ----------------------------------------------------- get_gemini_client
\* the handler's answer to RuntimeError: lines 171-172 and 202-205
AnswerMissingKey(r) ==
    IF r.endpoint = "chat"
    THEN [r EXCEPT !.pc = "done", !.resp = Json(500, MissingKeyMsg)]
    ELSE [r EXCEPT !.pc = "done", !.resp = Sse,
                   !.out = <<Event(MissingKeyMsg), Event(DoneMarker)>>,
                   !.stream = "closed"]

GenerationPc(r) == IF r.endpoint = "chat" THEN "generate_content" ELSE "generate_content_stream"

\* lines 49-55: the shared client if there is one, else the credential check
get_gemini_client(t) ==
    /\ th[t].pc = "get_client"
    /\ Quiet(t)
    /\ IF _client # None
       THEN Set(t, [th[t] EXCEPT !.pc = GenerationPc(th[t]), !.client = _client])
       ELSE IF NoApiKey(api_key)
       THEN Set(t, AnswerMissingKey(th[t]))
       ELSE Set(t, [th[t] EXCEPT !.pc = "create_client"])
    /\ UNCHANGED <<api_key, timeBound, clock, _client, _weather_cache, written, lastAloneFetch,
                   nRequests, nClients>>

\* _client = genai.Client(api_key=api_key); return _client: lines 57-58
create_client(t) ==
    /\ th[t].pc = "create_client"
    /\ Quiet(t)
    /\ nClients' = nClients + 1
    /\ _client' = [id |-> nClients + 1]
    /\ Set(t, [th[t] EXCEPT !.pc = GenerationPc(th[t]), !.client = [id |-> nClients + 1]])
    /\ UNCHANGED <<api_key, timeBound, clock, _weather_cache, written, lastAloneFetch, nRequests>>

\* ------------------------------------------------------------ generation
\* client.models.generate_content(...) and the reply: lines 174-178.  The call
\* returns a response or raises; nothing around it catches.
generate_content(t) ==
    /\ th[t].pc = "generate_content"
    /\ Quiet(t)
    /\ LET r == [th[t] EXCEPT !.prompts = Append(@, Contents(th[t].message))]
       IN \/ \E c \in ChunkTexts :
               Set(t, [r EXCEPT !.pc = "done",
                                !.resp = Json(200, Text(IF Truthy(c) THEN c.text ELSE ""))])
          \/ Set(t, [Escapes(r) EXCEPT !.genFailed = TRUE])
    /\ UNCHANGED <<api_key, timeBound, clock, _client, _weather_cache, written, lastAloneFetch,
                   nRequests, nClients>>

\* the generator's first step after the client is there: the call
\* client.models.generate_content_stream(...): lines 208-211.  The Response of
\* line 218 has been returned; an exception ends the generator.
generate_content_stream(t) ==
    /\ th[t].pc = "generate_content_stream"
    /\ Quiet(t)
    /\ LET r == [th[t] EXCEPT !.prompts = Append(@, Contents(th[t].message)),
                              !.resp = Sse]
       IN \/ Set(t, [r EXCEPT !.pc = "next_chunk", !.stream = "open"])
          \/ Set(t, [r EXCEPT !.pc = "done", !.stream = "aborted", !.genFailed = TRUE])
    /\ UNCHANGED <<api_key, timeBound, clock, _client, _weather_cache, written, lastAloneFetch,
                   nRequests, nClients>>

\* a mutant of Emit: the done marker follows every fragment
EmitDoneEach(out, c) ==
    IF Truthy(c) THEN Append(Append(out, Event(Text(c.text))), Event(DoneMarker)) ELSE out

\* a mutant of Emit: every chunk is forwarded
EmitAll(out, c) == Append(out, Event(Text(c.text)))

\* if chunk.text: yield f"data: {chunk.text}\n\n": lines 212-214
Emit(out, c) == IF Truthy(c) THEN Append(out, Event(Text(c.text))) ELSE out

\* one turn of the for loop of lines 208-216: the upstream hands over a chunk,
\* closes the stream, or raises
next_chunk(t) ==
    /\ th[t].pc = "next_chunk"
    /\ \/ /\ Len(th[t].upstream) < MaxFragments
          /\ \E c \in ChunkTexts :
               Set(t, [th[t] EXCEPT !.upstream = Append(@, c), !.out = Emit(@, c)])
       \/ Set(t, [th[t] EXCEPT !.pc = "done", !.out = Append(@, Event(DoneMarker)),
                               !.stream = "closed"])
       \/ Set(t, [th[t] EXCEPT !.pc = "done", !.stream = "aborted", !.genFailed = TRUE])
    /\ UNCHANGED <<api_key, timeBound, clock, _client, _weather_cache, written, lastAloneFetch,
                   nRequests, nClients>>

\* ----------------------------------------------------------- environment
\* the request's call of get_galway_time_weather returned a snapshot
LookupReturned(r) == r.result # None /\ r.resp # ErrorPage

\* the response has been delivered; the thread is free again
Finish(t) ==
    /\ th[t].pc = "done"
    /\ Set(t, Idle)
    /\ lastAloneFetch' =
          IF LookupReturned(th[t]) /\ th[t].net /\ th[t].alone
          THEN [now |-> th[t].now, ret |-> th[t].result]
          ELSE lastAloneFetch
    /\ UNCHANGED <<api_key, timeBound, clock, _client, _weather_cache, written, nRequests,
                   nClients>>

\* the steps that read the wall clock: time.time() of line 72 and
\* datetime.now(tz) of line 77, which the model takes together with the test of
\* line 73 when the cache does not answer
ClockReadPcs == {"time_time", "read_value", "read_ts"}

\* time passes.  Nothing but a read of the clock tells when it advanced, so
\* the model lets it advance only while some handler is about to read it.
Tick ==
    /\ clock < MaxTicks * TickStep
    /\ \A u \in Threads : th[u].pc \notin LocalPcs
    /\ \E u \in Threads : th[u].pc \in ClockReadPcs
    /\ clock' = clock + TickStep
    /\ UNCHANGED <<api_key, timeBound, _client, _weather_cache, written, th, lastAloneFetch,
                   nRequests, nClients>>

Next ==
    \/ \E t \in Threads :
         \/ health(t)
         \/ chat(t)
         \/ chat_stream(t)
         \/ time_time(t)
         \/ read_value(t)
         \/ read_ts(t)
         \/ return_cached(t)
         \/ store_ts(t)
         \/ store_value(t)
         \/ get_gemini_client(t)
         \/ create_client(t)
         \/ generate_content(t)
         \/ generate_content_stream(t)
         \/ next_chunk(t)
         \/ Finish(t)
    \/ Tick

Spec == Init /\ [][Next]_vars

\* ------------------------------------------------ one request at a time
\* The trigger of the fast path is a function of the message alone.  To try it
\* on more messages than the concurrent runs can afford, the requests of this
\* specification are served one after the other, by one thread.
TriggerMessages ==
    { <<"hi">>,
      <<"galway">>,
      <<"time">>,
      <<"time", " ", "galway">>,
      <<"time", " ", "ireland">>,
      <<"sometimes", " ", "Galway">>,
      <<"weather", " ", "ireland">>,
      <<"WEATHER", " ", "Galway">>,
      <<"weather", " ", "time">> }

TriggerPayloads == {[keys |-> {"message"}, message |-> m] : m \in TriggerMessages}

NextOneByOne ==
    \/ \E t \in {"t1"} :
         \/ health(t)
         \/ chat_of(t, TriggerPayloads)
         \/ chat_stream_of(t, TriggerPayloads)
         \/ time_time(t)
         \/ read_value(t)
         \/ read_ts(t)
         \/ return_cached(t)
         \/ store_ts(t)
         \/ store_value(t)
         \/ get_gemini_client(t)
         \/ create_client(t)
         \/ generate_content(t)
         \/ generate_content_stream(t)
         \/ next_chunk(t)
         \/ Finish(t)
    \/ Tick

SpecOneByOne == Init /\ [][NextOneByOne]_vars

\* =================================================================
\* The claims
\* =================================================================
Done(t) == th[t].pc = "done"

\* the request body carries no message, or one that is blank
IsBlank(payload) ==
    \/ "message" \notin payload.keys
    \/ \A i \in 1..Len(payload.message) : payload.message[i] = " "

GenCalls(t) == Len(th[t].prompts)

EndsWithDone(out) == out # <<>> /\ out[Len(out)] = Event(DoneMarker)

\* the message reaches the generation path: it is not blank and does not ask
\* for Galway's time or weather
Generates(payload) ==
    /\ ~IsBlank(payload)
    /\ ~(\E i \in 1..Len(payload.message) : payload.message[i] \in {"Galway", "galway"})

\* C1 (as claimed): every response of the streaming endpoint on the generation
\* path (normal streaming, zero fragments, missing credential, upstream error
\* before or between fragments) has the done marker as its last event.
C1_StreamEndsWithDone ==
    \A t \in Threads :
        (Done(t) /\ th[t].endpoint = "stream" /\ Generates(th[t].payload))
            => EndsWithDone(th[t].out)

NoCredential == api_key # "key"

HealthOk(t) ==
    (Done(t) /\ th[t].endpoint = "health")
        => th[t].resp = [status |-> 200, kind |-> "json", body |-> [status |-> "ok"]]

\* C3 (as claimed): without a credential /api/chat answers every non-blank
\* message with 500 and the missing-credential message and makes no generation
\* call; /api/health answers 200 {"status": "ok"} in every state.
C3_NoKeyIs500 ==
    \A t \in Threads :
        /\ (Done(t) /\ th[t].endpoint = "chat" /\ NoCredential /\ ~IsBlank(th[t].payload))
               => (th[t].resp = Json(500, MissingKeyMsg) /\ GenCalls(t) = 0)
        /\ HealthOk(t)

\* C3 (amended): without a credential /api/chat answers every non-blank message
\* that does not take the Galway fast path with 500 and the missing-credential
\* message and makes no generation call (no client is ever created);
\* /api/health answers 200 {"status": "ok"} in every state.
C3_NoKeyIs500OffFastPath ==
    /\ NoCredential => _client = None /\ nClients = 0
    /\ \A t \in Threads :
        /\ NoCredential => GenCalls(t) = 0
        /\ (Done(t) /\ th[t].endpoint = "chat" /\ NoCredential /\ Generates(th[t].payload))
               => th[t].resp = Json(500, MissingKeyMsg)
        /\ HealthOk(t)

C3_Witness ==
    \E t \in Threads :
        /\ api_key = ""
        /\ Done(t)
        /\ th[t].endpoint = "chat"
        /\ Generates(th[t].payload)
        /\ th[t].resp.status = 500
        /\ _weather_cache.value # None

\* C4 (as claimed): a failure of generate_content in /api/chat becomes an
\* explicit 500 response with an error body, not an escaped exception.
C4_GenerationFailureIsJson500 ==
    \A t \in Threads :
        (Done(t) /\ th[t].endpoint = "chat" /\ th[t].genFailed)
            => (th[t].resp.status = 500 /\ th[t].resp.kind = "json")

\* thread t is in, or has just finished, a call of get_galway_time_weather that
\* has read the clock
HasLooked(t) ==
    th[t].pc \in {"read_value", "read_ts", "return_cached", "store_ts", "store_value"}
        \/ (Done(t) /\ LookupReturned(th[t]))

AsksGalwayWeather(payload) ==
    /\ \E i \in 1..Len(payload.message) : payload.message[i] \in {"weather", "WEATHER"}
    /\ \E i \in 1..Len(payload.message) : payload.message[i] \in {"galway", "Galway"}

IsUnavailableNote(x) ==
    /\ DOMAIN x = {"kind", "local_time", "weather"}
    /\ x.kind = "direct"
    /\ x.weather = [unavailable |-> TRUE]

NoKeyword(message) ==
    \A i \in 1..Len(message) : message[i] \in {" ", "hi"}

\* C9 (as claimed): for a non-blank message without a trigger keyword the
\* prompt handed to the generation client is the message as received.
C9_PromptIsMessage ==
    \A t \in Threads :
        (~IsBlank(th[t].payload) /\ NoKeyword(th[t].payload.message))
            => \A k \in 1..GenCalls(t) : th[t].prompts[k] = th[t].payload.message

\* p is m without its leading and trailing blanks
IsTrimOf(p, m) ==
    \E i \in 1..Len(m) + 1, j \in 0..Len(m) :
        /\ p = SubSeq(m, i, j)
        /\ \A k \in 1..Len(m) : (k < i \/ k > j) => m[k] = " "
        /\ p # <<>> => (p[1] # " " /\ p[Len(p)] # " ")

\* C9 (amended): for a non-blank message without a trigger keyword the prompt
\* handed to the generation client is the message with its leading and
\* trailing whitespace removed, and nothing else changed or added.
C9_PromptIsTrimmedMessage ==
    \A t \in Threads :
        (~IsBlank(th[t].payload) /\ NoKeyword(th[t].payload.message))
            => \A k \in 1..GenCalls(t) : IsTrimOf(th[t].prompts[k], th[t].payload.message)

C9_Witness ==
    \E t \in Threads :
        /\ th[t].payload.message = <<" ", "hi", " ">>
        /\ th[t].prompts = << <<"hi">> >>
        /\ Done(t)

\* the data events the upstream's fragments call for
RECURSIVE Expected(_)
Expected(chunks) ==
    IF chunks = <<>> THEN <<>>
    ELSE IF Head(chunks).has_text /\ Head(chunks).text # ""
         THEN <<Event(Text(Head(chunks).text))>> \o Expected(Tail(chunks))
         ELSE Expected(Tail(chunks))

\* C10: on the generation path the streaming endpoint emits one data event per
\* non-empty upstream fragment, none for an empty one, in the upstream's order:
\* the events before the done marker are the non-empty fragments in order.
C10_EventsFollowFragments ==
    \A t \in Threads :
        (th[t].endpoint = "stream" /\ GenCalls(t) > 0)
            => /\ th[t].stream \in {"open", "aborted"} => th[t].out = Expected(th[t].upstream)
               /\ th[t].stream = "closed" =>
                      th[t].out = Expected(th[t].upstream) \o <<Event(DoneMarker)>>

C10_Witness ==
    \E t \in Threads :
        /\ th[t].stream = "closed"
        /\ Len(th[t].upstream) = 2
        /\ th[t].out = <<Event(Text("b")), Event(Text("a")), Event(DoneMarker)>>

\* e is an event `data: [ERROR] <message>`
IsErrorMarker(e) == e.data.kind = "error"

\* the streaming request of thread t has ended on a failure of
\* get_gemini_client or of the generation call before any data event
FailedBeforeData(t) ==
    /\ Done(t)
    /\ th[t].endpoint = "stream"
    /\ Generates(th[t].payload)
    /\ \/ th[t].client = None
       \/ th[t].genFailed /\ Expected(th[t].upstream) = <<>>

\* C11 (as claimed): a streaming response that fails for a missing credential
\* or a generation error before any data event consists of exactly one
\* error-marker event `data: [ERROR] <message>` and the done marker after it.
C11_ErrorMarkerThenDone ==
    \A t \in Threads :
        FailedBeforeData(t)
            => /\ Len(th[t].out) = 2
               /\ IsErrorMarker(th[t].out[1])
               /\ th[t].out[2] = Event(DoneMarker)

C13_ClientInitOnce ==
    /\ [](api_key = "key" =>
            /\ nClients <= 1
            /\ \A t \in Threads : th[t].client # None => th[t].client = _client)
    /\ [][(api_key = "key" /\ _client # None) => _client' = _client]_vars

\* the message contains one of the words (in any case, as a substring)
HasWord(payload, words) ==
    \E i \in 1..Len(payload.message) : payload.message[i] \in words

TimeWords == {"time", "sometimes"}
WeatherWords == {"weather", "WEATHER"}
GalwayWords == {"galway", "Galway"}
IrelandWords == {"ireland"}

\* the request of thread t has been handed to the live-data helper and the
\* helper has taken it on: it is in get_galway_time_weather, or that call has
\* returned or has raised
FastPath(t) ==
    \/ InLookup(t)
    \/ Done(t) /\ th[t].result # None
    \/ Done(t) /\ th[t].resp = ErrorPage /\ ~th[t].genFailed

\* the request of thread t has gone on to get_gemini_client
GeminiPath(t) ==
    \/ th[t].pc \in ClientPcs \cup {"generate_content", "generate_content_stream", "next_chunk"}
    \/ Done(t) /\ (th[t].client # None \/ th[t].genFailed)
    \/ Done(t) /\ th[t].resp = Json(500, MissingKeyMsg)
    \/ Done(t) /\ th[t].out = <<Event(MissingKeyMsg), Event(DoneMarker)>>

\* thread t serves a chat request with a message that is not blank
ServesMessage(t) ==
    th[t].pc # "idle" /\ th[t].endpoint \in {"chat", "stream"} /\ ~IsBlank(th[t].payload)

AsksGalway(payload) ==
    HasWord(payload, GalwayWords) /\ HasWord(payload, TimeWords \cup WeatherWords)

\* C15 (as claimed): a message with "galway" and "weather" or "time" is
\* answered directly from the live-data helper on both chat endpoints, with no
\* Gemini call and whatever the credential: /api/chat replies with the answer,
\* /api/chat/stream emits one data event with the answer and the done marker.
C15_FastPathAnswersDirectly ==
    \A t \in Threads :
        (Done(t) /\ th[t].endpoint \in {"chat", "stream"} /\ AsksGalway(th[t].payload))
            => /\ GenCalls(t) = 0
               /\ th[t].client = None
               /\ th[t].endpoint = "chat" =>
                      /\ th[t].resp.status = 200
                      /\ th[t].resp.kind = "json"
                      /\ th[t].resp.body.reply.kind = "direct"
               /\ th[t].endpoint = "stream" =>
                      /\ th[t].resp = Sse
                      /\ Len(th[t].out) = 2
                      /\ th[t].out[1].data.kind = "direct"
                      /\ th[t].out[2] = Event(DoneMarker)

\* how far a handler has come: a request passes through these in rising order
Rank(pc) ==
    CASE pc = "idle" -> 0
      [] pc \in {"time_time", "get_client"} -> 1
      [] pc \in {"read_value", "create_client"} -> 2
      [] pc \in {"read_ts", "generate_content", "generate_content_stream"} -> 3
      [] pc \in {"return_cached", "next_chunk"} -> 4
      [] pc = "store_ts" -> 5
      [] pc = "store_value" -> 6
      [] pc = "done" -> 7

IsPrefix(a, b) == Len(a) <= Len(b) /\ SubSeq(b, 1, Len(a)) = a

Acts(t) == th'[t] # th[t] /\ th'[t] # [th[t] EXCEPT !.alone = FALSE]

\* C18: only a request whose message triggers live-data handling modifies the
\* weather cache: no step of a health check, of a request rejected for a blank
\* message or of a chat request without the trigger keywords changes the
\* cache's timestamp or value; and no step of a health check or of a rejected
\* request changes the shared client or constructs one.
C18_OnlyTriggersTouchCache ==
    [][\A t \in Threads :
         Acts(t) =>
            LET r == IF th[t].pc = "idle" THEN th'[t] ELSE th[t]
                rejected == r.endpoint \in {"chat", "stream"} /\ IsBlank(r.payload)
            IN /\ (r.endpoint = "health" \/ rejected \/ ~AsksGalway(r.payload))
                      => _weather_cache' = _weather_cache
               /\ (r.endpoint = "health" \/ rejected)
                      => (_client' = _client /\ nClients' = nClients)]_vars

\* a request has just been rejected for its blank message while the cache holds
\* a snapshot and the shared client exists
C18_Witness ==
    \E t \in Threads :
        /\ Done(t)
        /\ th[t].endpoint = "stream"
        /\ IsBlank(th[t].payload)
        /\ _weather_cache.value # None
        /\ _client # None

====
